---- MODULE Spec2Model ----
(***************************************************************************)
(* A model of mcdreforged/plugin/regular_plugin.py: the load / ready /     *)
(* reload / unload / remove life cycle of RegularPlugin objects, the       *)
(* shared module table sys.modules, the plugin files on disk and the       *)
(* reentrant GLOBAL_LOAD_LOCK, run by several threads.                     *)
(***************************************************************************)
EXTENDS Integers, Sequences, FiniteSets, TLC

\* ------------------------------------------------------------------ bounds
\* The events one run may hold: the life cycle calls that pass assert_state
\* and the steps of outside actors.
MaxEvents == 4

Plugins == {"p1", "p2"}
PluginBefore(q, p) == q = "p1" /\ p = "p2"
Threads == {"t1", "t2"}
ThreadBefore(u, t) == u = "t1" /\ t = "t2"
\* The keys sys.modules may hold; those of Builtin are there from the start.
Modules == {"sys", "a", "b"}
Builtin == {"sys"}
\* What a plugin file can hold: NoFile when it is absent, else one of the texts.
NoFile == "absent"
Texts == {"v1", "v2"}
Contents == {NoFile} \cup Texts

\* ------------------------------------------------------- program constants
NoHash == <<"None">>
DEFAULT_LISTENER_PRIORITY == 1000
NoThread == "none"

UNINITIALIZED == "UNINITIALIZED"
LOADED == "LOADED"
READY == "READY"
UNLOADING == "UNLOADING"
UNLOADED == "UNLOADED"
PluginState == {UNINITIALIZED, LOADED, READY, UNLOADING, UNLOADED}

Ops == {"load", "ready", "reload", "unload", "remove"}

\* ------------------------------------------------------------------- state
VARIABLES
    sys_modules,          \* sys.modules: the keys, in insertion order
    file,                 \* file[p]: the contents at p.file_path
    state,                \* p.state
    file_hash,            \* p.file_hash
    module_instance,      \* p.module_instance
    old_module_instance,  \* p.old_module_instance
    newly_loaded_module,  \* p.newly_loaded_module
    metadata,             \* p.__metadata
    plugin_registry,      \* p.plugin_registry: the listeners, in order
    logger,               \* logger[p]: the diagnostics of p's unload
    lock,                 \* GLOBAL_LOAD_LOCK: owner and depth
    stack,                \* stack[t]: the calls thread t is inside
    raised,               \* whether the latest call raised IllegalCallError
    events,               \* the events so far
    introduced            \* introduced[p]: the keys the load and reload calls
                          \* of p brought in since its load() and that have
                          \* stayed in sys.modules since (history)

plugin_vars == <<state, file_hash, module_instance, old_module_instance,
                 newly_loaded_module, metadata, plugin_registry>>
vars == <<sys_modules, file, state, file_hash, module_instance,
          old_module_instance, newly_loaded_module, metadata,
          plugin_registry, logger, lock, stack, raised, events, introduced>>

\* ----------------------------------------------------------------- helpers
SetOf(s) == {s[i] : i \in 1..Len(s)}

Keys == SetOf(sys_modules)

NoUnit == [id |-> 0, src |-> NoFile]
NoMetadata == [set |-> FALSE, src |-> NoFile, declared |-> FALSE]

\* hashlib.sha256(...).hexdigest(): one digest per text, none of them None.
Sha256(c) == <<"sha256", c>>

\* get_file_hash: the digest of the file, None when there is no file.
get_file_hash(p) == IF file[p] # NoFile THEN Sha256(file[p]) ELSE NoHash

file_changed(p) == get_file_hash(p) # file_hash[p]

\* The texts that define PLUGIN_METADATA.
PluginMetadataAttr(c) == c = "v1"

\* The metadata left unset.
MetaDataNone(unit) == NoMetadata

\* MetaData(self, getattr(self.module_instance, 'PLUGIN_METADATA', None))
MetaData(unit) ==
    [set |-> TRUE, src |-> unit.src, declared |-> PluginMetadataAttr(unit.src)]

\* get_metadata, lines 36-39: raises IllegalCallError when __metadata is None,
\* else returns it.
get_metadata(p) ==
    IF metadata[p] = NoMetadata
    THEN [raises |-> TRUE, value |-> NoMetadata]
    ELSE [raises |-> FALSE, value |-> metadata[p]]

\* The event catalog: each event with its default_method_name (NoName when it
\* is not a string).
NoName == "<None>"
Events == <<"PLUGIN_LOAD", "GENERAL_INFO", "LITERAL">>
default_method_name(e) ==
    CASE e = "PLUGIN_LOAD" -> "on_load"
      [] e = "GENERAL_INFO" -> "on_info"
      [] OTHER -> NoName

\* The callables a unit loaded from text c exposes.
Callables(c) ==
    CASE c = "v1" -> {"on_load"}
      [] c = "v2" -> {"on_info"}
      [] OTHER -> {}

\* Listeners for every event that has a default method name, whether the unit
\* has a callable of that name or not.
DefaultListenersAnyName(unit) ==
    LET mk(e) == [event |-> e, unit |-> unit.id,
                  priority |-> DEFAULT_LISTENER_PRIORITY]
        all == [i \in 1..Len(Events) |-> mk(Events[i])]
    IN SelectSeq(all, LAMBDA l : default_method_name(l.event) # NoName)

\* The listeners __register_default_listeners adds for a unit, in catalog order.
DefaultListeners(unit) ==
    LET pick(e) == default_method_name(e) # NoName
                   /\ default_method_name(e) \in Callables(unit.src)
        mk(e) == [event |-> e, unit |-> unit.id,
                  priority |-> DEFAULT_LISTENER_PRIORITY]
        all == [i \in 1..Len(Events) |-> mk(Events[i])]
    IN SelectSeq(all, LAMBDA l : pick(l.event))

\* A module object is a new object: its identity differs from every unit the
\* plugin still refers to.
UnitIds == 1..4
LiveIds(p) ==
    {module_instance[p].id, old_module_instance[p].id}
        \cup {plugin_registry[p][i].unit : i \in 1..Len(plugin_registry[p])}
NewUnit(p, c) ==
    [id |-> CHOOSE n \in UnitIds : n \notin LiveIds(p)
                /\ \A m \in UnitIds : m \notin LiveIds(p) => n <= m,
     src |-> c]

\* Allowed with load's guard forgotten.
AllowedLoadAnywhere(op) ==
    CASE op = "load" -> PluginState
      [] op = "ready" -> {LOADED, READY}
      [] op = "reload" -> {LOADED, READY}
      [] op = "unload" -> {UNINITIALIZED, LOADED, READY}
      [] op = "remove" -> {UNLOADING}

\* Allowed with load permitted once more after the plugin was removed.
AllowedLoadAgain(op) ==
    CASE op = "load" -> {UNINITIALIZED, UNLOADED}
      [] op = "ready" -> {LOADED, READY}
      [] op = "reload" -> {LOADED, READY}
      [] op = "unload" -> {UNINITIALIZED, LOADED, READY}
      [] op = "remove" -> {UNLOADING}

\* The permitted states of each life cycle method (its assert_state call).
Allowed(op) ==
    CASE op = "load" -> {UNINITIALIZED}
      [] op = "ready" -> {LOADED, READY}
      [] op = "reload" -> {LOADED, READY}
      [] op = "unload" -> {UNINITIALIZED, LOADED, READY}
      [] op = "remove" -> {UNLOADING}

\* [module for module in sys.modules if module not in previous_modules]
NewlyLoaded(modules, previous_modules) ==
    SelectSeq(modules, LAMBDA m : m \notin previous_modules)

\* Pop reading the entry without taking it out.
PopKeeps(modules, module) == modules

\* Pop taking the newest entry out as well.
PopWithLast(modules, module) ==
    SelectSeq(modules, LAMBDA m : m # module /\ m # modules[Len(modules)])

\* sys.modules.pop(module) when the key is there.
Pop(modules, module) == SelectSeq(modules, LAMBDA m : m # module)

\* A lock that lets every thread in.
CanAcquireAlways(t) == TRUE

\* A lock that is not reentrant.
CanAcquireOnce(t) == lock.owner = NoThread

\* RLock: free, or held by the same thread.
CanAcquire(t) == lock.owner \in {NoThread, t}
Acquired(t) == [owner |-> t, count |-> lock.count + 1]
Released ==
    IF lock.count = 1 THEN [owner |-> NoThread, count |-> 0]
    ELSE [owner |-> lock.owner, count |-> lock.count - 1]

\* ------------------------------------------------------------- call stacks
\* One call a thread is inside: the method, the plugin, where it stands, its
\* locals (previous_modules, the text load_source read, the loop index i), and
\* what the call found when it began (before, inserted, listed, missing,
\* interfered), which only the properties read.
NoBefore == [file_hash |-> NoHash, module_instance |-> NoUnit,
             metadata |-> NoMetadata, state |-> UNINITIALIZED]
Before(p) == [file_hash |-> file_hash[p],
              module_instance |-> module_instance[p],
              metadata |-> metadata[p], state |-> state[p]]
Frame(op, p, pc) ==
    [op |-> op, p |-> p, pc |-> pc, previous_modules |-> {}, src |-> NoFile,
     i |-> 0, before |-> NoBefore, inserted |-> {}, listed |-> <<>>,
     missing |-> {}, interfered |-> FALSE]

Top(t) == stack[t][Len(stack[t])]
Depth(t) == Len(stack[t])
At(t, pc) == Depth(t) > 0 /\ Top(t).pc = pc
Popped(t) == SubSeq(stack[t], 1, Depth(t) - 1)
SetTop(t, f) == [stack EXCEPT ![t] = Append(Popped(t), f)]
Pop1(t) == [stack EXCEPT ![t] = Popped(t)]
Push(t, f) == [stack EXCEPT ![t] = Append(@, f)]

\* The external manager never runs two life cycle calls of one plugin at once.
InUse(p) == \E t \in Threads : \E i \in 1..Depth(t) : stack[t][i].p = p

\* Idle threads are alike: the manager gives a call to the first of them.
FirstIdle(t) == \A u \in Threads : Depth(u) = 0 => ~ThreadBefore(u, t)

\* A plugin nothing has touched yet.  Such plugins are alike: whoever picks
\* one picks the first.
Untouched(p) ==
    /\ ~InUse(p)
    /\ file[p] = "v1"
    /\ state[p] = UNINITIALIZED
    /\ file_hash[p] = NoHash
    /\ module_instance[p] = NoUnit
    /\ old_module_instance[p] = NoUnit
    /\ newly_loaded_module[p] = <<>>
    /\ metadata[p] = NoMetadata
    /\ plugin_registry[p] = <<>>
    /\ logger[p] = <<>>
    /\ introduced[p] = {}
FirstUntouched(p) ==
    Untouched(p) => \A q \in Plugins : Untouched(q) => ~PluginBefore(q, p)

\* Who can call a life cycle method: the manager on an idle thread, or the code
\* of a plugin that load_source is running (a nested call on the same thread).
CanCall(t, p) ==
    /\ ~InUse(p)
    /\ FirstUntouched(p)
    /\ \/ Depth(t) = 0 /\ FirstIdle(t)
       \/ At(t, "load_source") /\ Top(t).src # NoFile

\* The pcs inside a GLOBAL_LOAD_LOCK block.
CriticalPcs == {"load_source", "evict"}

\* -------------------------------------------------------------------- Init
Init ==
    /\ sys_modules = <<"sys">>
    /\ file = [p \in Plugins |-> "v1"]
    /\ state = [p \in Plugins |-> UNINITIALIZED]
    /\ file_hash = [p \in Plugins |-> NoHash]
    /\ module_instance = [p \in Plugins |-> NoUnit]
    /\ old_module_instance = [p \in Plugins |-> NoUnit]
    /\ newly_loaded_module = [p \in Plugins |-> <<>>]
    /\ metadata = [p \in Plugins |-> NoMetadata]
    /\ plugin_registry = [p \in Plugins |-> <<>>]
    /\ logger = [p \in Plugins |-> <<>>]
    /\ lock = [owner |-> NoThread, count |-> 0]
    /\ stack = [t \in Threads |-> <<>>]
    /\ raised = FALSE
    /\ events = 0
    /\ introduced = [p \in Plugins |-> {}]

\* ----------------------------------------------------------------- actions
\* A life cycle method is called in a state its assert_state refuses: it
\* raises IllegalCallError before anything else is done.
IllegalCall(t, op, p) ==
    /\ CanCall(t, p)
    /\ Depth(t) = 0
    /\ state[p] \notin Allowed(op)
    /\ raised' = TRUE
    /\ UNCHANGED <<sys_modules, file, plugin_vars, logger, lock, stack, events,
                   introduced>>

\* load (line 71) or reload (line 85) passes assert_state, and __load_instance
\* begins, line 59: self.file_hash = self.get_file_hash()
BeginLoad(t, op, p) ==
    /\ op \in {"load", "reload"}
    /\ CanCall(t, p)
    /\ state[p] \in Allowed(op)
    /\ events < MaxEvents
    /\ events' = events + 1
    /\ file_hash' = [file_hash EXCEPT ![p] = get_file_hash(p)]
    /\ stack' = Push(t, [Frame(op, p, "lock") EXCEPT !.before = Before(p)])
    /\ raised' = FALSE
    /\ introduced' = [introduced EXCEPT ![p] = IF op = "load" THEN {} ELSE @]
    /\ UNCHANGED <<sys_modules, file, state, module_instance,
                   old_module_instance, newly_loaded_module, metadata,
                   plugin_registry, logger, lock>>

\* __load_instance, lines 60-64: enter the lock, copy sys.modules, keep the old
\* unit, and load_source opens the file.
EnterLoad(t) ==
    /\ At(t, "lock")
    /\ CanAcquire(t)
    /\ lock' = Acquired(t)
    /\ old_module_instance' =
           [old_module_instance EXCEPT ![Top(t).p] = module_instance[Top(t).p]]
    /\ stack' = SetTop(t, [Top(t) EXCEPT !.pc = "load_source",
                                         !.previous_modules = Keys,
                                         !.src = file[Top(t).p]])
    /\ UNCHANGED <<sys_modules, file, state, file_hash, module_instance,
                   newly_loaded_module, metadata, plugin_registry, logger,
                   raised, events, introduced>>

\* load_source runs the plugin's code, which imports a module that is not in
\* sys.modules yet.
Import(t, k) ==
    /\ At(t, "load_source")
    /\ Top(t).src # NoFile
    /\ k \notin Keys
    /\ sys_modules' = Append(sys_modules, k)
    /\ stack' = [stack EXCEPT ![t] =
                    [i \in 1..Depth(t) |->
                        [@[i] EXCEPT !.inserted = @ \cup {k}]]]
    /\ UNCHANGED <<file, plugin_vars, logger, lock, raised, events, introduced>>

\* The diff added to the list instead of replacing it.
FinallyAccumulates(ok, modules, previous_modules, old) ==
    old \o NewlyLoaded(modules, previous_modules)

\* The diff taken after a return only, not in a finally clause.
OnlyOnReturn(ok, modules, previous_modules, old) ==
    IF ok THEN NewlyLoaded(modules, previous_modules) ELSE old

\* What the finally clause stores, whether load_source returned or raised.
FinallyNewlyLoaded(ok, modules, previous_modules, old) ==
    NewlyLoaded(modules, previous_modules)

\* The listeners left in place.
ClearedNot(registry) == registry

\* self.plugin_registry.clear(), line 68.
Cleared(registry) == <<>>

\* set_state(LOADED) done by reload as well.
StateAlwaysLoaded(op, s) == LOADED

\* The state when __load_instance has returned: load sets LOADED (line 74),
\* reload sets nothing (lines 86-87).
StateOnReturn(op, s) == IF op = "load" THEN LOADED ELSE s

\* __load_instance, lines 64-68, and line 74 of load: load_source returns the
\* unit or raises (it always raises when there is no file); the finally clause
\* takes the diff and the lock is left; after a return the metadata is read,
\* the listeners are cleared and load sets the state.
LeaveLoad(t, ok) ==
    /\ At(t, "load_source")
    /\ ok => Top(t).src # NoFile
    /\ newly_loaded_module' =
           [newly_loaded_module EXCEPT ![Top(t).p] =
               FinallyNewlyLoaded(ok, sys_modules, Top(t).previous_modules, @)]
    /\ lock' = Released
    /\ IF ok
       THEN LET unit == NewUnit(Top(t).p, Top(t).src)
            IN /\ module_instance' =
                      [module_instance EXCEPT ![Top(t).p] = unit]
               /\ metadata' = [metadata EXCEPT ![Top(t).p] = MetaData(unit)]
               /\ plugin_registry' =
                      [plugin_registry EXCEPT ![Top(t).p] = Cleared(@)]
               /\ state' = [state EXCEPT ![Top(t).p] =
                               StateOnReturn(Top(t).op, @)]
               /\ stack' = Pop1(t)
       ELSE /\ stack' = SetTop(t, [Top(t) EXCEPT !.pc = "raise"])
            /\ UNCHANGED <<module_instance, metadata, plugin_registry, state>>
    /\ introduced' = [introduced EXCEPT ![Top(t).p] =
                          @ \cup (Top(t).inserted \cap Keys)]
    /\ UNCHANGED <<sys_modules, file, file_hash, old_module_instance, logger,
                   raised, events>>

\* The exception of load_source leaves load or reload.
RaiseLoadError(t) ==
    /\ At(t, "raise")
    /\ stack' = Pop1(t)
    /\ UNCHANGED <<sys_modules, file, plugin_vars, logger, lock, raised, events, introduced>>

\* ready, lines 80-82.
Ready(t, p) ==
    /\ CanCall(t, p)
    /\ Depth(t) = 0
    /\ state[p] \in Allowed("ready")
    /\ events < MaxEvents
    /\ events' = events + 1
    /\ plugin_registry' =
           [plugin_registry EXCEPT ![p] =
               @ \o DefaultListeners(module_instance[p])]
    /\ state' = [state EXCEPT ![p] = READY]
    /\ UNCHANGED <<sys_modules, file, file_hash, module_instance,
                   old_module_instance, newly_loaded_module, metadata, logger,
                   lock, stack, introduced>>
    /\ raised' = FALSE

\* unload, line 90: assert_state passes; the call waits for the lock.
BeginUnload(t, p) ==
    /\ CanCall(t, p)
    /\ Depth(t) = 0
    /\ state[p] \in Allowed("unload")
    /\ events < MaxEvents
    /\ events' = events + 1
    /\ stack' = Push(t, [Frame("unload", p, "unload_lock") EXCEPT
                             !.before = Before(p)])
    /\ raised' = FALSE
    /\ UNCHANGED <<sys_modules, file, plugin_vars, logger, lock, introduced>>

\* unload, line 91: enter the lock; the for loop starts.
EnterUnload(t) ==
    /\ At(t, "unload_lock")
    /\ CanAcquire(t)
    /\ lock' = Acquired(t)
    /\ stack' = SetTop(t, [Top(t) EXCEPT
                    !.pc = "evict", !.i = 1,
                    !.listed = newly_loaded_module[Top(t).p],
                    !.missing = SetOf(newly_loaded_module[Top(t).p]) \ Keys])
    /\ UNCHANGED <<sys_modules, file, plugin_vars, logger, raised, events, introduced>>

\* The diagnostic of one pass of the loop.
EvictLog(module, found) ==
    [level |-> IF found THEN "debug" ELSE "critical", module |-> module]

\* The loop given up at the first key that is missing.
NextPassBreaks(i, found) == IF found THEN i + 1 ELSE i + Cardinality(Modules)

\* The pass after this one.
NextPass(i, found) == i + 1

\* unload, lines 92-98: one pass of the for loop.
Evict(t) ==
    /\ At(t, "evict")
    /\ Top(t).i <= Len(newly_loaded_module[Top(t).p])
    /\ LET module == newly_loaded_module[Top(t).p][Top(t).i]
           found == module \in Keys
       IN /\ sys_modules' = IF found THEN Pop(sys_modules, module)
                            ELSE sys_modules
          /\ logger' = [logger EXCEPT ![Top(t).p] =
                           Append(@, EvictLog(module, found))]
          /\ stack' = SetTop(t, [Top(t) EXCEPT !.i = NextPass(@, found)])
          /\ introduced' = [q \in Plugins |-> introduced[q] \ {module}]
    /\ UNCHANGED <<file, plugin_vars, lock, raised, events>>

\* unload, line 99 and the end of the with block.
LeaveUnload(t) ==
    /\ At(t, "evict")
    /\ Top(t).i > Len(newly_loaded_module[Top(t).p])
    /\ newly_loaded_module' = [newly_loaded_module EXCEPT ![Top(t).p] = <<>>]
    /\ lock' = Released
    /\ stack' = SetTop(t, [Top(t) EXCEPT !.pc = "unloading"])
    /\ UNCHANGED <<sys_modules, file, state, file_hash, module_instance,
                   old_module_instance, metadata, plugin_registry, logger,
                   raised, events, introduced>>

\* unload, line 100.
FinishUnload(t) ==
    /\ At(t, "unloading")
    /\ state' = [state EXCEPT ![Top(t).p] = UNLOADING]
    /\ stack' = Pop1(t)
    /\ UNCHANGED <<sys_modules, file, file_hash, module_instance,
                   old_module_instance, newly_loaded_module, metadata,
                   plugin_registry, logger, lock, raised, events, introduced>>

\* remove, lines 103-104.
Remove(t, p) ==
    /\ CanCall(t, p)
    /\ Depth(t) = 0
    /\ state[p] \in Allowed("remove")
    /\ events < MaxEvents
    /\ events' = events + 1
    /\ state' = [state EXCEPT ![p] = UNLOADED]
    /\ UNCHANGED <<sys_modules, file, file_hash, module_instance,
                   old_module_instance, newly_loaded_module, metadata,
                   plugin_registry, logger, lock, stack, introduced>>
    /\ raised' = FALSE

\* Another actor, which does not take the lock, removes a key of sys.modules
\* that a plugin brought in.
ExternalRemove(k) ==
    /\ events < MaxEvents
    /\ events' = events + 1
    /\ k \in Keys \ Builtin
    /\ sys_modules' = Pop(sys_modules, k)
    /\ stack' = [t \in Threads |->
                    [i \in 1..Depth(t) |->
                        IF stack[t][i].pc \in CriticalPcs
                        THEN [stack[t][i] EXCEPT !.interfered = TRUE]
                        ELSE stack[t][i]]]
    /\ introduced' = [q \in Plugins |-> introduced[q] \ {k}]
    /\ UNCHANGED <<file, plugin_vars, logger, lock, raised>>

\* An external writer replaces or deletes a plugin file.
ExternalWrite(p, c) ==
    /\ events < MaxEvents
    /\ events' = events + 1
    /\ FirstUntouched(p)
    /\ c # file[p]
    /\ file' = [file EXCEPT ![p] = c]
    /\ UNCHANGED <<sys_modules, plugin_vars, logger, lock, stack, raised,
                   introduced>>

\* load or reload called by the manager, not by the code of a plugin that is
\* being loaded.
TopLoad(t, op, p) == Depth(t) = 0 /\ BeginLoad(t, op, p)

\* The steps of one thread other than the calls of load and reload.
OtherSteps(t) ==
    \/ \E op \in Ops, p \in Plugins : IllegalCall(t, op, p)
    \/ EnterLoad(t)
    \/ \E k \in Modules : Import(t, k)
    \/ \E ok \in BOOLEAN : LeaveLoad(t, ok)
    \/ RaiseLoadError(t)
    \/ \E p \in Plugins : Ready(t, p)
    \/ \E p \in Plugins : BeginUnload(t, p)
    \/ EnterUnload(t)
    \/ Evict(t)
    \/ LeaveUnload(t)
    \/ FinishUnload(t)
    \/ \E p \in Plugins : Remove(t, p)

\* The steps of one thread.
Step(t) ==
    \/ \E op \in Ops, p \in Plugins : BeginLoad(t, op, p)
    \/ OtherSteps(t)

\* The steps of one thread when the code of the plugins calls no load.
StepFlat(t) ==
    \/ \E op \in Ops, p \in Plugins : TopLoad(t, op, p)
    \/ OtherSteps(t)

\* The steps of the actors outside the plugin manager.
External ==
    \/ \E k \in Modules : ExternalRemove(k)
    \/ \E p \in Plugins, c \in Contents : ExternalWrite(p, c)

\* One manager thread (its loads may nest) and the outside actors.
Next == Step("t1") \/ External

Spec == Init /\ [][Next]_vars

\* Several manager threads, on their own.
NextThreads == \E t \in Threads : Step(t)

SpecThreads == Init /\ [][NextThreads]_vars

\* The steps of a call that is under way on thread t, up to its return or
\* raise.
Runs(t) ==
    \/ EnterLoad(t)
    \/ \E ok \in BOOLEAN : LeaveLoad(t, ok)
    \/ RaiseLoadError(t)
    \/ EnterUnload(t)
    \/ Evict(t)
    \/ LeaveUnload(t)
    \/ FinishUnload(t)

\* Several manager threads, each of which keeps running the call it is in:
\* the calls are synchronous and load_source comes back, with the unit or with
\* an exception.
SpecLive ==
    Init /\ [][NextThreads]_vars /\ \A t \in Threads : WF_vars(Runs(t))

\* Several manager threads loading plugins whose code starts no call of its
\* own: no load is nested in another.
NextFlat == \E t \in Threads : StepFlat(t)

SpecFlat == Init /\ [][NextFlat]_vars

\* ================================================================== claims
\* Thread t's load step ends in this step: load_source has returned or raised
\* and the finally clause has run.
LeavesLoad(t) ==
    /\ At(t, "load_source")
    /\ \/ Len(stack'[t]) < Depth(t)
       \/ Len(stack'[t]) = Depth(t) /\ stack'[t][Depth(t)].pc = "raise"

\* Thread t enters the lock of its load step in this step.
TakesSnapshot(t) ==
    /\ At(t, "lock")
    /\ Len(stack'[t]) = Depth(t)
    /\ stack'[t][Depth(t)].pc = "load_source"

NoDuplicates(s) == Cardinality(SetOf(s)) = Len(s)

\* C1: whenever a load step ends, by a return or by an exception, the plugin's
\* newly_loaded_module holds exactly the keys sys.modules has at that moment
\* minus the keys it had when the same call took its snapshot, each once; the
\* list of an earlier call does not survive in it.
C1DiffExact ==
    [][\A t \in Threads :
          /\ TakesSnapshot(t) =>
                 stack'[t][Depth(t)].previous_modules = Keys
          /\ LeavesLoad(t) =>
                 /\ SetOf(newly_loaded_module'[Top(t).p])
                        = Keys \ Top(t).previous_modules
                 /\ NoDuplicates(newly_loaded_module'[Top(t).p])]_vars

\* A reload has replaced the list of the load: the load brought in "a", the
\* reload "b", and the list is <<"b">>.
C1Witness ==
    \E p \in Plugins :
        /\ ~InUse(p)
        /\ state[p] = LOADED
        /\ old_module_instance[p] # NoUnit
        /\ newly_loaded_module[p] = <<"b">>
        /\ "a" \in Keys

\* C2: when unload has left the lock, no key that the plugin's load and its
\* reloads brought into sys.modules, and that nobody else took out since, is
\* still there.
C2LeakFree ==
    \A t \in Threads : At(t, "unloading") => introduced[Top(t).p] = {}

\* C3: when unload has left the lock, none of the keys that were in
\* newly_loaded_module when unload was called is in sys.modules, and the list is
\* empty; it stays empty once unload has returned.
C3EvictionComplete ==
    /\ \A t \in Threads :
           At(t, "unloading") =>
               /\ SetOf(Top(t).listed) \cap Keys = {}
               /\ newly_loaded_module[Top(t).p] = <<>>
    /\ \A p \in Plugins :
           state[p] \in {UNLOADING, UNLOADED} => newly_loaded_module[p] = <<>>

\* An unload that found both of its two keys has left the lock.
C3Witness ==
    \E t \in Threads :
        /\ At(t, "unloading")
        /\ Len(Top(t).listed) = 2
        /\ Top(t).missing = {}
        /\ ~Top(t).interfered

\* The diagnostics unload owes for a list of keys of which some were missing.
ExpectedLog(listed, missing) ==
    [i \in 1..Len(listed) |->
        [level |-> IF listed[i] \in missing THEN "critical" ELSE "debug",
         module |-> listed[i]]]

\* Thread t's unload sets the state and returns in this step.
FinishesUnload(t) == At(t, "unloading") /\ Len(stack'[t]) < Depth(t)

\* C4: whatever part of newly_loaded_module another actor had removed from
\* sys.modules before unload ran, unload leaves none of the listed keys in
\* sys.modules, has logged one critical diagnostic for each missing key and one
\* debug diagnostic for each key it removed, in the order of the list, has
\* emptied the list, and goes on to set the state UNLOADING.
C4PartialFailure ==
    /\ [](\A t \in Threads :
             At(t, "unloading") /\ ~Top(t).interfered =>
                 /\ logger[Top(t).p] = ExpectedLog(Top(t).listed, Top(t).missing)
                 /\ SetOf(Top(t).listed) \cap Keys = {}
                 /\ newly_loaded_module[Top(t).p] = <<>>)
    /\ [][\A t \in Threads :
             /\ At(t, "evict") => Len(stack'[t]) = Depth(t)
             /\ FinishesUnload(t) => state'[Top(t).p] = UNLOADING]_vars

\* An unload has left the lock after it met a missing key first and a key that
\* was there after it.
C4Witness ==
    \E t \in Threads :
        /\ At(t, "unloading")
        /\ ~Top(t).interfered
        /\ Len(Top(t).listed) = 2
        /\ Top(t).missing = {Top(t).listed[1]}
        /\ Len(logger[Top(t).p]) = 2

\* The states the life cycle methods are permitted in.
Permitted(op) ==
    CASE op = "load" -> {UNINITIALIZED}
      [] op = "ready" -> {LOADED, READY}
      [] op = "reload" -> {LOADED, READY}
      [] op = "unload" -> {UNINITIALIZED, LOADED, READY}
      [] op = "remove" -> {UNLOADING}

\* C5: a call gets past assert_state only in a permitted state of its method,
\* and a call that raises IllegalCallError changes neither sys.modules nor any
\* field of any plugin.
C5StateGuards ==
    [][/\ raised' /\ ~raised =>
              UNCHANGED <<sys_modules, state, file_hash, module_instance,
                          old_module_instance, newly_loaded_module, metadata,
                          plugin_registry, logger, lock>>
       /\ \A t \in Threads :
              Len(stack'[t]) > Depth(t) =>
                  LET f == stack'[t][Len(stack'[t])]
                  IN state[f.p] \in Permitted(f.op)
       /\ \A p \in Plugins :
              /\ \/ state'[p] = READY /\ state[p] # READY
                 \/ Len(plugin_registry'[p]) > Len(plugin_registry[p])
                 => state[p] \in Permitted("ready")
              /\ state'[p] = UNLOADED /\ state[p] # UNLOADED
                 => state[p] \in Permitted("remove")]_vars

\* With every plugin READY, the latest call (a load or a remove, the two
\* methods READY does not permit) raised IllegalCallError.
C5Witness == raised /\ \A p \in Plugins : state[p] = READY

\* C6: when load_source has raised inside load or reload, the plugin's
\* module_instance, file_hash and metadata are what they were when the call
\* began.
C6FailureKeepsData ==
    \A t \in Threads :
        At(t, "raise") =>
            /\ module_instance[Top(t).p] = Top(t).before.module_instance
            /\ file_hash[Top(t).p] = Top(t).before.file_hash
            /\ metadata[Top(t).p] = Top(t).before.metadata

\* How often thread t holds the lock, by its calls.
HeldDepth(t) ==
    Cardinality({i \in 1..Depth(t) : stack[t][i].pc \in CriticalPcs})

\* C7: when load_source has raised and the exception is about to leave load or
\* reload, newly_loaded_module holds exactly the keys load_source had put into
\* sys.modules before it raised (no other actor having taken keys out
\* meanwhile), the lock block of the call has been left, and the plugin's state
\* is what it was; and an unload called on the plugin after a failed load
\* leaves none of the listed keys in sys.modules.
C7FailureBookkeeping ==
    /\ \A t \in Threads :
           At(t, "raise") =>
               /\ ~Top(t).interfered =>
                      SetOf(newly_loaded_module[Top(t).p]) = Top(t).inserted
               /\ lock.count = HeldDepth(t) \/ lock.owner # t
               /\ HeldDepth(t) = 0 => lock.owner # t
               /\ state[Top(t).p] = Top(t).before.state
    /\ \A t \in Threads :
           At(t, "unloading") /\ Top(t).before.state = UNINITIALIZED =>
               /\ SetOf(Top(t).listed) \cap Keys = {}
               /\ newly_loaded_module[Top(t).p] = <<>>

\* An unload that follows a failed load has left the lock after it evicted the
\* two keys the failed load had put in.
C7Witness ==
    \E t \in Threads :
        /\ At(t, "unloading")
        /\ Top(t).before.state = UNINITIALIZED
        /\ Top(t).before.module_instance = NoUnit
        /\ Len(Top(t).listed) = 2
        /\ Top(t).missing = {}
        /\ [i \in 1..2 |-> logger[Top(t).p][i].level] = <<"debug", "debug">>

\* Thread t's load or reload returns in this step.
LoadReturns(t) == At(t, "load_source") /\ Len(stack'[t]) < Depth(t)

\* C8: when load or reload returns, file_hash is the digest of the text the new
\* module_instance was loaded from.
C8HashOfLoadedText ==
    [][\A t \in Threads :
          LoadReturns(t) =>
              file_hash'[Top(t).p] = Sha256(module_instance'[Top(t).p].src)]_vars

\* Thread t's unload takes a step.
UnloadSteps(t) ==
    /\ Depth(t) > 0
    /\ Top(t).op = "unload"
    /\ \/ Len(stack'[t]) # Depth(t)
       \/ stack'[t][Depth(t)].pc # Top(t).pc
       \/ stack'[t][Depth(t)].i # Top(t).i

\* C9: a step of unload takes out of sys.modules only keys of the plugin's own
\* newly_loaded_module, puts nothing in, leaves the other entries in their
\* order, and leaves the newly_loaded_module of every other plugin as it was.
C9EvictsOnlyRecorded ==
    [][\A t \in Threads :
          UnloadSteps(t) =>
              /\ Keys \ SetOf(sys_modules')
                     \subseteq SetOf(newly_loaded_module[Top(t).p])
              /\ sys_modules' = SelectSeq(sys_modules,
                                   LAMBDA m : m \in SetOf(sys_modules'))
              /\ \A q \in Plugins \ {Top(t).p} :
                     newly_loaded_module'[q] = newly_loaded_module[q]]_vars

\* An unload has evicted a key while another plugin has keys of its own listed
\* that are still in sys.modules.
C9Witness ==
    \E t \in Threads :
        /\ At(t, "evict")
        /\ Top(t).i > 1
        /\ logger[Top(t).p][1].level = "debug"
        /\ \E q \in Plugins \ {Top(t).p} :
               /\ newly_loaded_module[q] # <<>>
               /\ SetOf(newly_loaded_module[q]) \subseteq Keys

\* The threads inside a GLOBAL_LOAD_LOCK block.
InCritical == {t \in Threads : HeldDepth(t) > 0}

\* C10: at most one thread is inside a lock block (snapshot to diff of a load
\* step, or the eviction loop of unload), it is the owner of the lock, and
\* while it is inside no step of another thread changes sys.modules.
C10MutualExclusion ==
    /\ [](/\ Cardinality(InCritical) <= 1
          /\ \A t \in InCritical : lock.owner = t /\ lock.count = HeldDepth(t))
    /\ [][\A t \in InCritical :
             \A u \in Threads \ {t} :
                 stack'[u] # stack[u] => sys_modules' = sys_modules]_vars

\* One thread is inside load_source, with a key already imported, while
\* another waits for the lock to unload a plugin that has keys listed.
C10Witness ==
    \E t \in Threads, u \in Threads :
        /\ t # u
        /\ At(t, "load_source")
        /\ Top(t).inserted # {}
        /\ At(u, "unload_lock")
        /\ newly_loaded_module[Top(u).p] # <<>>

\* The moves of the life cycle.
LifecycleEdges ==
    {<<UNINITIALIZED, LOADED>>, <<LOADED, READY>>,
     <<UNINITIALIZED, UNLOADING>>, <<LOADED, UNLOADING>>,
     <<READY, UNLOADING>>, <<UNLOADING, UNLOADED>>}

\* A call on plugin p gets past assert_state in this step.
CallAccepted(p) ==
    \/ \E t \in Threads :
           /\ Len(stack'[t]) > Depth(t)
           /\ stack'[t][Len(stack'[t])].p = p
    \/ Len(plugin_registry'[p]) > Len(plugin_registry[p])
    \/ state'[p] # state[p]

\* C11: the state of a plugin changes only along UNINITIALIZED -> LOADED ->
\* READY, from these three to UNLOADING, and from UNLOADING to UNLOADED; once
\* it is UNLOADING or UNLOADED no load, ready, reload or unload gets past
\* assert_state and no field of the plugin changes, but for remove's move to
\* UNLOADED; in UNLOADED no method is permitted and nothing changes any more.
C11LifecycleOrder ==
    /\ [](\A p \in Plugins :
             /\ state[p] \in {UNLOADING, UNLOADED} => ~InUse(p)
             /\ state[p] = UNLOADED =>
                    \A op \in Ops : state[p] \notin Allowed(op))
    /\ [][\A p \in Plugins :
             /\ state'[p] # state[p] =>
                    <<state[p], state'[p]>> \in LifecycleEdges
             /\ state[p] \in {UNLOADING, UNLOADED} =>
                    /\ state'[p] \in {state[p], UNLOADED}
                    /\ ~InUse(p)'
                    /\ UNCHANGED <<file_hash[p], module_instance[p],
                                   old_module_instance[p],
                                   newly_loaded_module[p], metadata[p],
                                   plugin_registry[p], logger[p]>>
             /\ state[p] = UNLOADED => ~CallAccepted(p)]_vars

\* A plugin went through load, ready, unload and remove, and a call made on
\* the plugins after that raised IllegalCallError.
C11Witness ==
    \E p \in Plugins :
        /\ state[p] = UNLOADED
        /\ plugin_registry[p] # <<>>
        /\ raised

\* The calls of reload that are running.
ReloadFrames ==
    {f \in UNION {SetOf(stack[t]) : t \in Threads} : f.op = "reload"}

\* C12: reload does not change the state: from the moment it is called until
\* it has returned or raised, the state is the one it was called in, LOADED or
\* READY.
C12ReloadKeepsState ==
    /\ [](\A f \in ReloadFrames :
             /\ f.before.state \in {LOADED, READY}
             /\ state[f.p] = f.before.state)
    /\ [][\A t \in Threads :
             /\ Depth(t) > 0 /\ Top(t).op = "reload" =>
                    state'[Top(t).p] = state[Top(t).p]
             /\ Len(stack'[t]) > Depth(t) =>
                    LET f == stack'[t][Len(stack'[t])]
                    IN f.op = "reload" => state'[f.p] = state[f.p]]_vars

\* A reload called in READY has returned with a new unit, and the state is
\* READY.
C12Witness ==
    \E p \in Plugins :
        /\ ~InUse(p)
        /\ state[p] = READY
        /\ old_module_instance[p] # NoUnit
        /\ module_instance[p] # old_module_instance[p]
        /\ plugin_registry[p] = <<>>

\* C13: file_changed is true exactly when the digest of the file as it is now
\* (None when there is no file) differs from file_hash, None against a digest
\* counting as a difference; its value stays the same while neither the file
\* nor file_hash changes; and once a load has succeeded, a write that gives the
\* file other contents than the ones the unit was loaded from makes it true.
C13FileChangeDetected ==
    /\ [](\A p \in Plugins :
             file_changed(p) <=>
                 IF file[p] = NoFile THEN file_hash[p] # NoHash
                 ELSE file_hash[p] = NoHash
                      \/ \E c \in Texts \ {file[p]} : file_hash[p] = Sha256(c))
    /\ [][\A p \in Plugins :
             /\ UNCHANGED <<file[p], file_hash[p]>> =>
                    file_changed(p)' = file_changed(p)
             /\ /\ module_instance[p] # NoUnit
                /\ file'[p] # file[p]
                /\ file'[p] # module_instance[p].src
                => file_changed(p)']_vars

\* C14: a thread inside a call can take a step unless another thread holds the
\* lock, and the thread that holds the lock can always take a step; the lock is
\* held exactly as often as its owner is inside lock blocks, so by no thread
\* when no call is running; and a thread that is inside calls, nested or not,
\* gets out of all of them in the end: every call returns or raises.
C14NoDeadlock ==
    /\ [](\A t \in Threads :
             /\ Depth(t) > 0 =>
                    ENABLED Runs(t) \/ lock.owner \notin {NoThread, t}
             /\ lock.owner = t => ENABLED Runs(t)
             /\ lock.owner = t <=> HeldDepth(t) > 0
             /\ lock.owner = t => lock.count = HeldDepth(t))
    /\ []((\A t \in Threads : Depth(t) = 0) =>
             lock = [owner |-> NoThread, count |-> 0])
    /\ \A t \in Threads : (Depth(t) > 0) ~> (Depth(t) = 0)

\* A load that load_source started inside another load on the same thread is
\* inside its lock block: the thread holds the lock twice.
C14Witness ==
    \E t \in Threads :
        /\ Depth(t) = 2
        /\ At(t, "load_source")
        /\ stack[t][1].pc = "load_source"
        /\ lock = [owner |-> t, count |-> 2]

\* C15: with several threads at work on different plugins and no nested load,
\* the newly_loaded_module a load step leaves holds only keys that the
\* load_source of that very call imported, and no key is ever in the
\* newly_loaded_module of two plugins.
C15Attribution ==
    /\ [](\A p \in Plugins : \A q \in Plugins \ {p} :
             SetOf(newly_loaded_module[p])
                 \cap SetOf(newly_loaded_module[q]) = {})
    /\ [][\A t \in Threads :
             LeavesLoad(t) =>
                 SetOf(newly_loaded_module'[Top(t).p]) \subseteq Top(t).inserted]_vars

\* While one thread's load is importing, another thread's load of another
\* plugin has just failed and left keys of its own listed.
C15Witness ==
    \E t \in Threads, u \in Threads :
        /\ t # u
        /\ At(t, "load_source")
        /\ Top(t).inserted # {}
        /\ At(u, "raise")
        /\ newly_loaded_module[Top(u).p] # <<>>

\* How many listeners of a collection are for event e.
ListenersFor(registry, e) ==
    Cardinality({i \in 1..Len(registry) : registry[i].event = e})

\* Event e has a default method name and the unit has a callable of that name.
Bound(unit, e) ==
    \E name \in Callables(unit.src) : name = default_method_name(e)

\* A call of ready on plugin p takes effect in this step.
ReadyStep(p) ==
    \/ Len(plugin_registry'[p]) > Len(plugin_registry[p])
    \/ state'[p] = READY /\ state[p] # READY

\* C16: ready, called in LOADED or READY, keeps the listeners that are there,
\* adds after them one listener for each event of the catalog whose default
\* method name is a callable of module_instance and none for any other event,
\* each with DEFAULT_LISTENER_PRIORITY and the callable of module_instance,
\* and ends in READY; nothing but ready adds listeners, so after n calls of
\* ready since the last load or reload there are n listeners for each such
\* event.
C16DefaultListeners ==
    /\ [](\A p \in Plugins :
             \E n \in 0..Len(plugin_registry[p]) :
                 \A e \in SetOf(Events) :
                     ListenersFor(plugin_registry[p], e)
                         = IF Bound(module_instance[p], e) THEN n ELSE 0)
    /\ [][\A p \in Plugins :
             /\ plugin_registry'[p] # plugin_registry[p] =>
                    ReadyStep(p) \/ plugin_registry'[p] = <<>>
             /\ ReadyStep(p) =>
                    LET old == plugin_registry[p]
                        new == plugin_registry'[p]
                    IN /\ state[p] \in {LOADED, READY}
                       /\ state'[p] = READY
                       /\ module_instance'[p] = module_instance[p]
                       /\ Len(new) >= Len(old)
                       /\ SubSeq(new, 1, Len(old)) = old
                       /\ \A e \in SetOf(Events) :
                              ListenersFor(new, e) =
                                  ListenersFor(old, e)
                                  + IF Bound(module_instance[p], e)
                                    THEN 1 ELSE 0
                       /\ \A i \in (Len(old) + 1)..Len(new) :
                              /\ new[i].priority = DEFAULT_LISTENER_PRIORITY
                              /\ new[i].unit = module_instance[p].id]_vars

\* ready was called twice in a row: the plugin is READY with two listeners for
\* the same event.
C16Witness ==
    \E p \in Plugins :
        /\ state[p] = READY
        /\ Len(plugin_registry[p]) = 2
        /\ plugin_registry[p][1].event = plugin_registry[p][2].event

\* Thread t is inside load or reload and this step is not its return.
LoadGoesOn(t) ==
    /\ Depth(t) > 0
    /\ Top(t).op \in {"load", "reload"}
    /\ ~LoadReturns(t)

C18MetadataAvailable ==
    /\ [](\A p \in Plugins :
             /\ get_metadata(p).raises <=> module_instance[p] = NoUnit
             /\ state[p] \in {LOADED, READY} =>
                    /\ ~get_metadata(p).raises
                    /\ get_metadata(p).value.set
                    /\ get_metadata(p).value.src = module_instance[p].src)
    /\ [][\A p \in Plugins :
             /\ ~get_metadata(p).raises => ~get_metadata(p)'.raises
             /\ metadata'[p] # metadata[p] =>
                    \E t \in Threads : LoadReturns(t) /\ Top(t).p = p]_vars

\* One plugin was loaded, unloaded and removed and get_metadata still returns
\* its metadata, while for another plugin, whose only load failed, it raises.
C18Witness ==
    \E p \in Plugins, q \in Plugins :
        /\ state[p] = UNLOADED
        /\ ~get_metadata(p).raises
        /\ ~InUse(q)
        /\ file_hash[q] # NoHash
        /\ get_metadata(q).raises

====
